---- MODULE Spec2Model ----
(***************************************************************************)
(* A model of the Apify actor template: src/main.py (the coroutine main)   *)
(* and src/__main__.py (the process entry point).                          *)
(*                                                                         *)
(* One behaviour is one process run.  The environment chooses the content  *)
(* of the input store, whether each awaited SDK call succeeds or raises,   *)
(* and what the wall clock reads each time the loop body reads it.         *)
(***************************************************************************)
EXTENDS Integers, Sequences, FiniteSets, TLC

(***************************************************************************)
(* Bounds of the model.                                                    *)
(***************************************************************************)
\* largest integer maxItems the environment supplies
MaxInt == 3
\* the wall clock reads ClockMin .. ClockMin + ClockSpan (microseconds)
ClockSpan == 1
\* how many times the wall clock is set back during one run
MaxSetbacks == 1

(***************************************************************************)
(* Python values.  Every value is a record of the same shape so that any   *)
(* two values can be compared: t is the Python type, n the numeric payload *)
(* and s the string payload.  Absent marks a key a mapping does not hold.  *)
(***************************************************************************)
PyNone == [t |-> "NoneType", n |-> 0, s |-> ""]
PyInt(n) == [t |-> "int", n |-> n, s |-> ""]
PyBool(b) == [t |-> "bool", n |-> (IF b THEN 1 ELSE 0), s |-> ""]
PyFloat(n) == [t |-> "float", n |-> n, s |-> ""]
PyStr(s) == [t |-> "str", n |-> 0, s |-> s]
Absent == [t |-> "absent", n |-> 0, s |-> ""]

Keys == {"startUrl", "maxItems", "other"}

EmptyDict == [k \in Keys |-> Absent]

\* what Actor.get_input() can return: None, a mapping, or another JSON value
\* (here a list of len elements)
JsonNone == [kind |-> "none", d |-> EmptyDict, len |-> 0]
JsonDict(d) == [kind |-> "dict", d |-> d, len |-> 0]
JsonList(len) == [kind |-> "list", d |-> EmptyDict, len |-> len]
\* a local variable that has not been assigned yet
Unset == [kind |-> "unset", d |-> EmptyDict, len |-> 0]

StartUrlValues ==
    {Absent, PyNone, PyStr("https://foo.test"), PyStr("")}

MaxItemsValues ==
    {Absent, PyNone, PyStr("3"), PyFloat(2), PyBool(TRUE), PyBool(FALSE)}
        \cup {PyInt(n) : n \in -1 .. MaxInt}

OtherValues == {Absent, PyInt(7)}

StoreContents ==
    {JsonNone, JsonList(0), JsonList(1)}
        \cup {JsonDict([k \in Keys |->
                          CASE k = "startUrl" -> u
                            [] k = "maxItems" -> m
                            [] OTHER -> o]) :
                 u \in StartUrlValues, m \in MaxItemsValues, o \in OtherValues}

(***************************************************************************)
(* The wall clock, in microseconds since the epoch.  The range straddles a *)
(* whole second, where isoformat() changes shape.                          *)
(***************************************************************************)
UsecPerSec == 1000000
ClockMin == UsecPerSec - 1
ClockValues == ClockMin .. (ClockMin + ClockSpan)

(***************************************************************************)
(* Pure helpers, as the code computes them.                                *)
(***************************************************************************)
\* truth value of a Python object: None, {} and [] are falsy
Truthy(x) ==
    CASE x.kind = "none" -> FALSE
      [] x.kind = "dict" -> \E k \in Keys : x.d[k] # Absent
      [] x.kind = "list" -> x.len > 0
      [] OTHER -> FALSE

OrEmptyKeepNone(x) == x

\* `await Actor.get_input() or {}`
OrEmpty(x) == IF Truthy(x) THEN x ELSE JsonDict(EmptyDict)

DictGetNullAsAbsent(d, key, default) ==
    IF d[key] = Absent \/ d[key] = PyNone THEN default ELSE d[key]

\* dict.get(key, default): the default only when the key is absent
DictGet(d, key, default) == IF d[key] = Absent THEN default ELSE d[key]

RangeOkCoerce(v) == v.t \in {"int", "bool", "str"}

\* range(v) accepts an object with __index__: int and its subclass bool
RangeOk(v) == v.t \in {"int", "bool"}

RangeLenAbs(v) == IF v.n > 0 THEN v.n ELSE -v.n

\* len(range(v)): v when positive, otherwise 0
RangeLen(v) == IF v.n > 0 THEN v.n ELSE 0

\* datetime.isoformat() of an aware UTC datetime:
\* YYYY-MM-DDTHH:MM:SS+00:00, with .ffffff only when microsecond # 0
isoformat(t) ==
    [sec |-> t \div UsecPerSec,
     frac |-> (IF t % UsecPerSec = 0 THEN <<>> ELSE <<t % UsecPerSec>>),
     off |-> "+00:00"]

\* the instant an ISO-8601 string denotes (datetime.fromisoformat)
fromisoformat(s) ==
    s.sec * UsecPerSec + (IF s.frac = <<>> THEN 0 ELSE s.frac[1])

MakeRecordOneBased(i, url, t) ==
    [index |-> i + 1, url |-> url, timestamp |-> isoformat(t)]

MakeRecordDefaultUrl(i, url, t) ==
    [index |-> i, url |-> PyStr("https://example.com"), timestamp |-> isoformat(t)]

\* {"index": i, "url": start_url, "timestamp": datetime.now(UTC).isoformat()}
MakeRecord(i, url, t) ==
    [index |-> i, url |-> url, timestamp |-> isoformat(t)]

ListPrepend(l, r) == <<r>> \o l

\* results.append(r)
ListAppend(l, r) == Append(l, r)

PushArgFirstOnly(l) == IF l = <<>> THEN l ELSE <<l[1]>>

\* the argument of Actor.push_data: the whole list
PushArg(l) == l

ExitStatusAlwaysZero(e) == 0

\* asyncio.run(main()) re-raises what main() raised; an uncaught exception
\* ends the interpreter with status 1, a normal return with status 0
ExitStatus(e) == IF e = "none" THEN 0 ELSE 1

LogEntry(msg, arg) == [level |-> "info", msg |-> msg, arg |-> arg]

(***************************************************************************)
(* State.                                                                  *)
(***************************************************************************)
VARIABLES
    pc,            \* position in main(): the statement about to run
    store,         \* content of the default key-value store's INPUT record
    entered,       \* Actor.__aenter__ completed
    finalized,     \* number of times Actor.__aexit__ ran
    actor_input,   \* local actor_input
    start_url,     \* local start_url
    max_items,     \* local max_items
    results,       \* local results
    i,             \* loop variable: the next value range() yields
    rangeLen,      \* length of the range object being iterated
    now,           \* last reading of the wall clock
    setbacks,      \* times the wall clock went backwards so far
    pushed,        \* the batches Actor.push_data was called with
    getInputCalls, \* calls of Actor.get_input
    rangeEvals,    \* evaluations of range(max_items)
    log,           \* entries handed to Actor.log.info
    exc,           \* the exception in flight: where it was raised, or "none"
    exitCode       \* process exit status, -1 while running

vars == <<pc, store, entered, finalized, actor_input, start_url, max_items,
          results, i, rangeLen, now, setbacks, pushed, getInputCalls,
          rangeEvals, log, exc, exitCode>>

\* everything main() and the SDK calls it makes can change
mainVars == <<pc, entered, finalized, actor_input, start_url, max_items,
              results, i, rangeLen, pushed, getInputCalls, rangeEvals, log,
              exc>>

\* what the statements of the `async with` body change
bodyVars == <<actor_input, start_url, max_items, results, i, rangeLen,
              pushed, getInputCalls, rangeEvals, log>>

Init ==
    /\ pc = "aenter"
    /\ store \in StoreContents
    /\ entered = FALSE
    /\ finalized = 0
    /\ actor_input = Unset
    /\ start_url = Absent
    /\ max_items = Absent
    /\ results = <<>>
    /\ i = 0
    /\ rangeLen = 0
    /\ now = ClockMin
    /\ setbacks = 0
    /\ pushed = <<>>
    /\ getInputCalls = 0
    /\ rangeEvals = 0
    /\ log = <<>>
    /\ exc = "none"
    /\ exitCode = -1

(***************************************************************************)
(* main(), statement by statement.                                         *)
(***************************************************************************)
\* `async with Actor:` -- __aenter__ completes
AEnter ==
    /\ pc = "aenter"
    /\ entered' = TRUE
    /\ pc' = "get_input"
    /\ UNCHANGED <<store, finalized, actor_input, start_url, max_items,
                   results, i, rangeLen, now, setbacks, pushed,
                   getInputCalls, rangeEvals, log, exc, exitCode>>

\* __aenter__ raises: the context was never entered, __aexit__ is not called
AEnterFail ==
    /\ pc = "aenter"
    /\ exc' = "aenter"
    /\ pc' = "raised"
    /\ UNCHANGED <<store, entered, finalized, actor_input, start_url,
                   max_items, results, i, rangeLen, now, setbacks, pushed,
                   getInputCalls, rangeEvals, log, exitCode>>

\* actor_input = await Actor.get_input() or {}
GetInput ==
    /\ pc = "get_input"
    /\ getInputCalls' = getInputCalls + 1
    /\ actor_input' = OrEmpty(store)
    /\ pc' = "log_input"
    /\ UNCHANGED <<store, entered, finalized, start_url, max_items, results,
                   i, rangeLen, now, setbacks, pushed, rangeEvals, log, exc,
                   exitCode>>

\* Actor.get_input() raises
GetInputFail ==
    /\ pc = "get_input"
    /\ getInputCalls' = getInputCalls + 1
    /\ exc' = "get_input"
    /\ pc' = "aexit"
    /\ UNCHANGED <<store, entered, finalized, actor_input, start_url,
                   max_items, results, i, rangeLen, now, setbacks, pushed,
                   rangeEvals, log, exitCode>>

\* Actor.log.info("Actor input:", extra={"input": actor_input})
LogInput ==
    /\ pc = "log_input"
    /\ log' = Append(log, LogEntry("Actor input:", actor_input))
    /\ pc' = "extract"
    /\ UNCHANGED <<store, entered, finalized, actor_input, start_url,
                   max_items, results, i, rangeLen, now, setbacks, pushed,
                   getInputCalls, rangeEvals, exc, exitCode>>

\* start_url = actor_input.get(...); max_items = actor_input.get(...)
\* a truthy input that is not a mapping has no .get: AttributeError
Extract ==
    /\ pc = "extract"
    /\ IF actor_input.kind = "dict"
       THEN /\ start_url' = DictGet(actor_input.d, "startUrl",
                                    PyStr("https://example.com"))
            /\ max_items' = DictGet(actor_input.d, "maxItems", PyInt(10))
            /\ pc' = "log_url"
            /\ exc' = exc
       ELSE /\ exc' = "extract"
            /\ pc' = "aexit"
            /\ UNCHANGED <<start_url, max_items>>
    /\ UNCHANGED <<store, entered, finalized, actor_input, results, i,
                   rangeLen, now, setbacks, pushed, getInputCalls,
                   rangeEvals, log, exitCode>>

\* Actor.log.info(f"Processing URL: {start_url}")
LogUrl ==
    /\ pc = "log_url"
    /\ log' = Append(log, LogEntry("Processing URL: ", start_url))
    /\ pc' = "range"
    /\ UNCHANGED <<store, entered, finalized, actor_input, start_url,
                   max_items, results, i, rangeLen, now, setbacks, pushed,
                   getInputCalls, rangeEvals, exc, exitCode>>

\* results = []; for i in range(max_items): -- the range object is built
\* once; a max_items without __index__ raises TypeError
EvalRange ==
    /\ pc = "range"
    /\ results' = <<>>
    /\ rangeEvals' = rangeEvals + 1
    /\ IF RangeOk(max_items)
       THEN /\ rangeLen' = RangeLen(max_items)
            /\ i' = 0
            /\ pc' = "loop"
            /\ exc' = exc
       ELSE /\ exc' = "range"
            /\ pc' = "aexit"
            /\ UNCHANGED <<rangeLen, i>>
    /\ UNCHANGED <<store, entered, finalized, actor_input, start_url,
                   max_items, now, setbacks, pushed, getInputCalls, log,
                   exitCode>>

\* one iteration: read the wall clock, build the record, append it
LoopBody ==
    /\ pc = "loop"
    /\ i < rangeLen
    /\ \E t \in ClockValues :
          /\ t < now => setbacks < MaxSetbacks
          /\ now' = t
          /\ setbacks' = IF t < now THEN setbacks + 1 ELSE setbacks
          /\ results' = ListAppend(results, MakeRecord(i, start_url, t))
    /\ i' = i + 1
    /\ UNCHANGED <<pc, store, entered, finalized, actor_input, start_url,
                   max_items, rangeLen, pushed, getInputCalls, rangeEvals,
                   log, exc, exitCode>>

\* the range is exhausted: the for statement ends
LoopEnd ==
    /\ pc = "loop"
    /\ i >= rangeLen
    /\ pc' = "push"
    /\ UNCHANGED <<store, entered, finalized, actor_input, start_url,
                   max_items, results, i, rangeLen, now, setbacks, pushed,
                   getInputCalls, rangeEvals, log, exc, exitCode>>

\* await Actor.push_data(results)
PushData ==
    /\ pc = "push"
    /\ pushed' = Append(pushed, PushArg(results))
    /\ pc' = "log_done"
    /\ UNCHANGED <<store, entered, finalized, actor_input, start_url,
                   max_items, results, i, rangeLen, now, setbacks,
                   getInputCalls, rangeEvals, log, exc, exitCode>>

\* Actor.push_data(results) raises
PushDataFail ==
    /\ pc = "push"
    /\ pushed' = Append(pushed, PushArg(results))
    /\ exc' = "push"
    /\ pc' = "aexit"
    /\ UNCHANGED <<store, entered, finalized, actor_input, start_url,
                   max_items, results, i, rangeLen, now, setbacks,
                   getInputCalls, rangeEvals, log, exitCode>>

\* Actor.log.info(f"Successfully processed {len(results)} items")
LogDone ==
    /\ pc = "log_done"
    /\ log' = Append(log, LogEntry("Successfully processed ", PyInt(Len(results))))
    /\ pc' = "aexit"
    /\ UNCHANGED <<store, entered, finalized, actor_input, start_url,
                   max_items, results, i, rangeLen, now, setbacks, pushed,
                   getInputCalls, rangeEvals, exc, exitCode>>

AExitSkipOnError ==
    /\ pc = "aexit"
    /\ finalized' = IF exc = "none" THEN finalized + 1 ELSE finalized
    /\ pc' = IF exc = "none" THEN "returned" ELSE "raised"
    /\ UNCHANGED <<store, entered, actor_input, start_url, max_items,
                   results, i, rangeLen, now, setbacks, pushed,
                   getInputCalls, rangeEvals, log, exc, exitCode>>

\* leaving the `async with` block, normally or with an exception in flight:
\* __aexit__ finalizes the actor and lets the exception through
AExit ==
    /\ pc = "aexit"
    /\ finalized' = finalized + 1
    /\ pc' = IF exc = "none" THEN "returned" ELSE "raised"
    /\ UNCHANGED <<store, entered, actor_input, start_url, max_items,
                   results, i, rangeLen, now, setbacks, pushed,
                   getInputCalls, rangeEvals, log, exc, exitCode>>

\* __main__: asyncio.run(main()) is over and the interpreter exits
ProcessExit ==
    /\ pc \in {"returned", "raised"}
    /\ exitCode = -1
    /\ exitCode' = ExitStatus(exc)
    /\ UNCHANGED <<pc, store, entered, finalized, actor_input, start_url,
                   max_items, results, i, rangeLen, now, setbacks, pushed,
                   getInputCalls, rangeEvals, log, exc>>

Next ==
    \/ AEnter
    \/ AEnterFail
    \/ GetInput
    \/ GetInputFail
    \/ LogInput
    \/ Extract
    \/ LogUrl
    \/ EvalRange
    \/ LoopBody
    \/ LoopEnd
    \/ PushData
    \/ PushDataFail
    \/ LogDone
    \/ AExit
    \/ ProcessExit

Spec == Init /\ [][Next]_vars

(***************************************************************************)
(* Vocabulary of the properties.                                           *)
(***************************************************************************)
Placeholder == PyStr("https://example.com")

Terminal == {"returned", "raised"}

\* main() has run past the two .get() statements
PastExtract ==
    \/ pc \in {"log_url", "range", "loop", "push", "log_done"}
    \/ pc \in {"aexit", "returned", "raised"}
          /\ exc \notin {"aenter", "get_input", "extract"}

\* Actor.get_input() was called and returned
InputFetched == getInputCalls = 1 /\ exc # "get_input"

\* every record built so far and every record handed to the sink
Records ==
    {results[k] : k \in 1 .. Len(results)}
        \cup UNION {{pushed[b][k] : k \in 1 .. Len(pushed[b])} :
                       b \in 1 .. Len(pushed)}

HasLog(msg) == \E k \in 1 .. Len(log) : log[k].msg = msg

NonDecreasing(l) ==
    \A j, k \in 1 .. Len(l) :
        j < k => fromisoformat(l[j].timestamp) <= fromisoformat(l[k].timestamp)

(***************************************************************************)
(* C1: when the input supplies a non-negative integer N as maxItems, a run *)
(* of main() that returns normally has handed the sink exactly N records,  *)
(* and the record at position k (from 0) has index k.                      *)
(***************************************************************************)
C1_ExactlyNIndexedInOrder ==
    (/\ pc = "returned"
     /\ store.kind = "dict"
     /\ store.d["maxItems"].t = "int"
     /\ store.d["maxItems"].n >= 0)
    => /\ Len(pushed) = 1
       /\ Len(pushed[1]) = store.d["maxItems"].n
       /\ \A k \in 1 .. Len(pushed[1]) : pushed[1][k].index = k - 1

C1_Witness ==
    /\ pc = "returned"
    /\ store.kind = "dict"
    /\ store.d["maxItems"] = PyInt(MaxInt)
    /\ Len(pushed) = 1
    /\ Len(pushed[1]) = MaxInt
    /\ pushed[1][MaxInt].index = MaxInt - 1

(***************************************************************************)
(* C2: once the runtime context has been entered, finalization happens     *)
(* exactly once by the time main() is over, on the normal path and on      *)
(* every failing path; it is the last thing main() does (nothing of main() *)
(* changes after it) and it never happens without initialization.          *)
(***************************************************************************)
C2_FinalizedOnceAndLast ==
    /\ [](/\ finalized <= 1
          /\ (finalized >= 1 => entered)
          /\ (pc \notin Terminal => finalized = 0)
          /\ ((pc \in Terminal /\ entered) => finalized = 1))
    /\ [][finalized >= 1 => UNCHANGED mainVars]_vars

C2_Witness ==
    /\ pc = "raised"
    /\ exc = "push"
    /\ entered
    /\ finalized = 1

(***************************************************************************)
(* C3: when the input store returns None or an empty mapping, startUrl     *)
(* resolves to the placeholder, maxItems to 10, nothing fails before the   *)
(* submission, and the batch handed to the sink has exactly 10 records.    *)
(***************************************************************************)
C3_DefaultsOnMissingInput ==
    (/\ InputFetched
     /\ \/ store.kind = "none"
        \/ store.kind = "dict" /\ \A k \in Keys : store.d[k] = Absent)
    => /\ exc \in {"none", "push"}
       /\ PastExtract => start_url = Placeholder /\ max_items = PyInt(10)
       /\ pc = "push" => Len(results) = 10
       /\ pc \in {"log_done", "returned"} => Len(pushed) = 1
       /\ \A b \in 1 .. Len(pushed) : Len(pushed[b]) = 10

C3_Witness ==
    /\ store.kind = "none"
    /\ pc = "returned"
    /\ start_url = Placeholder
    /\ Len(pushed) = 1
    /\ Len(pushed[1]) = 10

(***************************************************************************)
(* C4: every record of a run carries as url the startUrl resolved for the  *)
(* run: the value under the input key startUrl when the key is present,    *)
(* the placeholder otherwise.                                              *)
(***************************************************************************)
C4_UrlIsResolvedStartUrl ==
    LET resolved == IF store.kind = "dict" /\ store.d["startUrl"] # Absent
                    THEN store.d["startUrl"]
                    ELSE Placeholder
    IN /\ \A r \in Records : r.url = resolved
       /\ PastExtract => start_url = resolved

C4_Witness ==
    /\ store.kind = "dict"
    /\ store.d["startUrl"] = PyStr("https://foo.test")
    /\ Len(pushed) = 1
    /\ Len(pushed[1]) >= 2
    /\ pushed[1][1].url = PyStr("https://foo.test")
    /\ pushed[1][2].url = PyStr("https://foo.test")

(***************************************************************************)
(* C5: the sink is called at most once in any run and exactly once in a    *)
(* run that returns normally; the call carries the whole list, and is made *)
(* only when the loop has built every record (also when there are none).   *)
(***************************************************************************)
C5_SinkCalledOnceWithAll ==
    /\ Len(pushed) <= 1
    /\ pc = "returned" => Len(pushed) = 1
    /\ pc \in {"aenter", "get_input", "log_input", "extract", "log_url",
               "range", "loop", "push"} => pushed = <<>>
    /\ Len(pushed) = 1 => /\ pushed[1] = results
                          /\ Len(results) = rangeLen
                          /\ i = rangeLen

C5_Witness ==
    /\ pc = "returned"
    /\ Len(pushed) = 1
    /\ Len(pushed[1]) >= 2
    /\ pushed[1] = results

(***************************************************************************)
(* C6: for an integer maxItems n the number of records is n when n > 0 and *)
(* 0 when n <= 0; with n <= 0 the loop bound does not fail, the batch is   *)
(* empty, and the run returns normally once the sink has taken the batch.  *)
(***************************************************************************)
C6_CountIsMaxItemsOrZero ==
    (/\ InputFetched
     /\ store.kind = "dict"
     /\ store.d["maxItems"].t = "int")
    => LET n == store.d["maxItems"].n
           want == IF n > 0 THEN n ELSE 0
       IN /\ exc \in {"none", "push"}
          /\ pc \in {"push", "log_done", "returned"} => Len(results) = want
          /\ pc \in {"log_done", "returned"} => Len(pushed) = 1
          /\ \A b \in 1 .. Len(pushed) : Len(pushed[b]) = want
          /\ (exitCode # -1 /\ exc = "none") => exitCode = 0

C6_Witness ==
    /\ store.kind = "dict"
    /\ store.d["maxItems"] = PyInt(-1)
    /\ pc = "returned"
    /\ pushed = << <<>> >>
    /\ exitCode = 0

(***************************************************************************)
(* C7 as stated: the timestamps of the records of one run are              *)
(* non-decreasing along the sequence.                                      *)
(***************************************************************************)
C7_TimestampsNonDecreasing ==
    /\ NonDecreasing(results)
    /\ \A b \in 1 .. Len(pushed) : NonDecreasing(pushed[b])

(***************************************************************************)
(* C7 amended: in a run during which the wall clock was not set back, the  *)
(* timestamps of the records are non-decreasing along the sequence.        *)
(***************************************************************************)
C7_NonDecreasingUnlessClockSetBack ==
    setbacks = 0 =>
        /\ NonDecreasing(results)
        /\ \A b \in 1 .. Len(pushed) : NonDecreasing(pushed[b])

C7_Witness ==
    /\ setbacks = 0
    /\ Len(pushed) = 1
    /\ Len(pushed[1]) >= 2
    /\ pushed[1][1].timestamp.frac # <<>>
    /\ pushed[1][2].timestamp.frac = <<>>

(***************************************************************************)
(* C8: a failure is not caught or retried: get_input, the loop bound and   *)
(* the sink are each attempted at most once, no statement of the body runs *)
(* once an exception is in flight, the exception leaves main() through the *)
(* context manager, and the process then exits with a non-zero status.     *)
(***************************************************************************)
C8_FailureIsFatal ==
    /\ [](/\ getInputCalls <= 1
          /\ rangeEvals <= 1
          /\ Len(pushed) <= 1
          /\ (exc # "none" => pc \in {"aexit", "raised"})
          /\ (pc = "returned" => exc = "none")
          /\ ((exc # "none" /\ exitCode # -1) => exitCode # 0)
          /\ ((exc \notin {"none", "aenter"} /\ pc = "raised") => finalized = 1))
    /\ [][exc # "none" => (exc' = exc /\ UNCHANGED bodyVars)]_vars

C8_Witness ==
    /\ exc = "get_input"
    /\ getInputCalls = 1
    /\ pc = "raised"
    /\ log = <<>>
    /\ exitCode = 1

(***************************************************************************)
(* C9 as stated: a maxItems that is not an integer makes the run fail at   *)
(* the loop bound, after the input was fetched and echoed, with no record  *)
(* built, the sink never called and no completion entry logged.            *)
(***************************************************************************)
C9_NonIntegerFailsAtLoopBound ==
    (/\ actor_input.kind = "dict"
     /\ actor_input.d["maxItems"].t \notin {"int", "absent"})
    => /\ rangeEvals = 1 => exc = "range"
       /\ exc = "range" => InputFetched /\ HasLog("Actor input:")
       /\ exc \in {"none", "range"}
       /\ results = <<>>
       /\ pushed = <<>>
       /\ ~HasLog("Successfully processed ")

(***************************************************************************)
(* C9 amended: a maxItems that is neither an integer nor a boolean (a      *)
(* string, a float, null) makes the run fail at the loop bound, after the  *)
(* input was fetched and echoed, with no record built, the sink never      *)
(* called and no completion entry logged; a boolean maxItems is accepted   *)
(* as the loop bound 1 (true) or 0 (false).                                *)
(***************************************************************************)
C9_NonIndexFailsAtLoopBound ==
    /\ (/\ actor_input.kind = "dict"
        /\ actor_input.d["maxItems"].t \notin {"int", "bool", "absent"})
       => /\ rangeEvals = 1 => exc = "range"
          /\ exc = "range" => InputFetched /\ HasLog("Actor input:")
          /\ exc \in {"none", "range"}
          /\ results = <<>>
          /\ pushed = <<>>
          /\ ~HasLog("Successfully processed ")
    /\ (/\ actor_input.kind = "dict"
        /\ actor_input.d["maxItems"].t = "bool")
       => /\ exc # "range"
          /\ rangeEvals = 1 => rangeLen = actor_input.d["maxItems"].n

C9_Witness ==
    /\ actor_input.kind = "dict"
    /\ actor_input.d["maxItems"] = PyStr("3")
    /\ pc = "raised"
    /\ exc = "range"
    /\ Len(log) = 2
    /\ pushed = <<>>

(***************************************************************************)
(* C10: a key present with value null does not get the default.  With      *)
(* maxItems null, maxItems resolves to null and the run fails at the loop  *)
(* bound with nothing built or submitted; with startUrl null, startUrl     *)
(* resolves to null and every record has url null.                         *)
(***************************************************************************)
C10_NullIsNotDefaulted ==
    /\ (actor_input.kind = "dict" /\ actor_input.d["maxItems"] = PyNone)
       => /\ PastExtract => max_items = PyNone
          /\ rangeEvals = 1 => exc = "range"
          /\ results = <<>>
          /\ pushed = <<>>
    /\ (actor_input.kind = "dict" /\ actor_input.d["startUrl"] = PyNone)
       => /\ PastExtract => start_url = PyNone
          /\ \A r \in Records : r.url = PyNone

C10_Witness ==
    /\ actor_input.kind = "dict"
    /\ actor_input.d["maxItems"] = PyNone
    /\ actor_input.d["startUrl"] = PyNone
    /\ max_items = PyNone
    /\ start_url = PyNone
    /\ pc = "raised"
    /\ exc = "range"
    /\ pushed = <<>>

====
